---- MODULE Spec2Model ----
(***************************************************************************)
(* Model of the Orkli Termowifi connector                                  *)
(* (custom_components/orkli_termowifi): value codec, frame codec, Room     *)
(* decoding, room registry / discovery and the connection supervisor with  *)
(* its senders and close().                                                *)
(*                                                                         *)
(* Temperatures are integers in tenths of a degree (64.5 C is 645), bytes  *)
(* are integers 0..255, a frame is a sequence of 7 bytes.  Python's None   *)
(* is <<>> and a known value v is <<v>>.                                   *)
(***************************************************************************)
EXTENDS Integers, Sequences, FiniteSets, TLC

VARIABLES
    rooms,          \* TermowifiConnector.rooms: rooms in dict insertion order
    newRoomEvents,  \* per room id, dispatches of "<DOMAIN>_new_room"
    fired,          \* room ids whose updated_callback ran for the last frame
    lastFrame,      \* SpecApply: the frame that is applied
    prevRooms,      \* SpecApply: rooms before the last application
    applied,        \* SpecApply: times lastFrame has been applied
    fedCount,       \* SpecFrames: per room id, valid discovery frames fed (saturating)
    codec,          \* SpecCodec: a byte, what it decodes to, and that encoded again
    received,       \* SpecStream: the bytes read() has returned
    dispatched,     \* SpecStream: the frames passed to process_socket_response
    task,           \* self._reader_task: "none", "running" or "done"
    supPc,          \* where the supervisor coroutine is suspended
    cancelReq,      \* task.cancel() was called and not yet delivered
    backoff,        \* _reader_loop's local backoff
    fails,          \* failures since the last successful connect, or since the start
    eofSeen,        \* a read of this task's connection has returned b""
    live,           \* supervisor tasks created and not finished
    writer,         \* self.writer (self.reader with it): "null", "open", "eof", "closed"
    socks,          \* sockets opened and not closed
    connectLock,    \* holder of self._connect_lock, or "free"
    writerLock,     \* holder of self._writer_lock, or "free"
    buffer,         \* _read_socket's local buffer
    wire,           \* the frames written to the socket since it was last quiet
    snd,            \* per sender: its _async_send_trace call
    closePc         \* where async_close is suspended

regVars == <<rooms, newRoomEvents, fired>>

applyVars == <<lastFrame, prevRooms, applied, fedCount, codec>>

streamVars == <<received, dispatched>>

obsVars == <<applyVars, streamVars>>

supVars == <<task, supPc, cancelReq, backoff, fails, eofSeen, live>>

connVars == <<supVars, writer, socks, connectLock, writerLock, buffer, wire, snd, closePc>>

vars == <<regVars, obsVars, connVars>>

----------------------------------------------------------------------------
(* Bounds *)

\* fedCount saturates here: 0, 1, ..., "MaxFed or more".
MaxFed == 2

\* SpecApply applies its frame this many times in a row.
MaxApplied == 2

\* SpecBackoff lets the supervisor fail this many times in a row.
MaxFails == 8

\* wire keeps this many of the frames written last since the socket was quiet.
MaxWire == 2

\* Spec lets the supervisor fail this many times in a row.
MaxRetries == 2

----------------------------------------------------------------------------
(* Python values *)

None == <<>>

Some(v) == <<v>>

\* No conversion has been asked for.
NoCodec == [kind |-> "none", x |-> 0, y |-> None, z |-> None]

Byte == 0..255

RoomIds == 0..4

----------------------------------------------------------------------------
(* termowifi_tools.py: the value codec *)

\* int(): truncation toward zero of n/d, d > 0.
TruncDiv(n, d) == IF n >= 0 THEN n \div d ELSE -((-n) \div d)

temperature_from_value(value) == (value - 30) * 5 + 150

\* The mutant of value_from_temperature: the offset is missing.
value_from_temperature_no_offset(temperature) == TruncDiv(temperature - 150, 5)

value_from_temperature(temperature) == TruncDiv(temperature - 150, 5) + 30

\* The mutant of value_to_ambient: the graduations are added, not subtracted.
value_to_ambient_rising(value) == 455 + (value - 71) * 5

value_to_ambient(value) == 455 - (value - 71) * 5

\* "(45.5 + temperature) / 0.5 + 71", for a temperature that is a multiple
\* of 0.5, where the float division is exact.
ambient_to_value(temperature) == (455 + temperature) \div 5 + 71

\* The mutant of value_to_humidity: the raw byte is kept.
value_to_humidity_raw(value) == value

value_to_humidity(value) == (value * 100) \div 255

----------------------------------------------------------------------------
(* TraceHeader and the frame codec *)

SEND_COMMAND == <<59, 1, 254, 4>>

VALID_ANSWER == <<59, 1, 1, 4>>

VALID_CONFIRMATION == <<59, 254, 1, 1>>

\* The mutant of valid_header_response: any four bytes pass for a header.
valid_header_response_any(response) == Some(SubSeq(response, 1, 4))

\* _valid_header_response
valid_header_response(response) ==
    IF SubSeq(response, 1, 4) = VALID_ANSWER THEN Some(VALID_ANSWER)
    ELSE IF SubSeq(response, 1, 4) = VALID_CONFIRMATION THEN Some(VALID_CONFIRMATION)
    ELSE None

\* The mutant of checksum_diff: one offset for both classes.
checksum_diff_zero(header_type) == 0

\* checksum_diff of Room.parse_response and TermowifiConnector._parse_response
checksum_diff(header_type) == IF header_type = VALID_CONFIRMATION THEN 0 ELSE 6

----------------------------------------------------------------------------
(* Room *)

Room(id) ==
    [id |-> id, state |-> None, operation_state |-> None, temperature |-> None,
     conf_temperature |-> None, humidity |-> None, updated_callback |-> FALSE]

\* The mutant of Differs: every decode counts as a change.
DiffersAlways(old, new) == TRUE

\* "if self.<field> != new_<field>: value_changed = True"
Differs(old, new) == old # new

\* The mutant of ZeroIsNoop: the 0x00 guard is missing.
ZeroIsNoopNever(value) == FALSE

\* "if value == 0x00: return processed"
ZeroIsNoop(value) == value = 0

\* The mutant of base_info: every room takes the info family of room 0.
base_info_zero(id) == 0

\* "base_info = self.id * 4"
base_info(id) == id * 4

\* Room.parse_response: the room after the frame, whether the room processed
\* it, and whether updated_callback was called.
Room_parse_response(room, response, header_type) ==
    LET command == response[5]
        value == response[6]
        checksum == response[7]
        diff == checksum_diff(header_type)
        sum_ok == checksum = (command + value + diff) % 256
        done(r, value_changed) ==
            [room |-> r, processed |-> TRUE,
             fired |-> value_changed /\ room.updated_callback]
    IN  IF ZeroIsNoop(value)
        THEN [room |-> room, processed |-> TRUE, fired |-> FALSE]
        ELSE IF command = base_info(room.id) /\ sum_ok
        THEN IF value = 3
             THEN done([room EXCEPT !.state = Some("ON")],
                       Differs(room.state, Some("ON")))
             ELSE IF value = 2
             THEN done([room EXCEPT !.state = Some("OFF")],
                       Differs(room.state, Some("OFF")))
             ELSE done(room, FALSE)
        ELSE IF command = base_info(room.id) + 1 /\ sum_ok
        THEN IF value = 2
             THEN done([room EXCEPT !.operation_state = Some("HEAT")],
                       Differs(room.operation_state, Some("HEAT")))
             ELSE IF value = 3
             THEN done([room EXCEPT !.operation_state = Some("COOL")],
                       Differs(room.operation_state, Some("COOL")))
             ELSE done(room, FALSE)
        ELSE IF command = base_info(room.id) + 2 /\ sum_ok
        THEN LET new_conf_temperature == Some(temperature_from_value(value))
             IN  done([room EXCEPT !.conf_temperature = new_conf_temperature],
                      Differs(room.conf_temperature, new_conf_temperature))
        ELSE IF command = base_info(room.id) + 3 /\ sum_ok
        THEN LET new_temperature == Some(value_to_ambient(value))
             IN  done([room EXCEPT !.temperature = new_temperature],
                      Differs(room.temperature, new_temperature))
        ELSE IF command = room.id + 100 /\ sum_ok
        THEN LET new_humidity == Some(value_to_humidity(value))
             IN  done([room EXCEPT !.humidity = new_humidity],
                      Differs(room.humidity, new_humidity))
        ELSE [room |-> room, processed |-> FALSE, fired |-> FALSE]

----------------------------------------------------------------------------
(* TermowifiConnector: registry and discovery *)

RoomIdsOf(rs) == {rs[i].id : i \in 1..Len(rs)}

\* The mutant of RoomKnown: the membership test always fails.
RoomKnownNever(rs, room_id) == FALSE

\* "room_id in self.rooms"
RoomKnown(rs, room_id) == room_id \in RoomIdsOf(rs)

\* "self.rooms[room_id] = room": a new key goes last, an old key keeps its place.
DictSet(rs, room) ==
    IF room.id \in RoomIdsOf(rs)
    THEN [i \in 1..Len(rs) |-> IF rs[i].id = room.id THEN room ELSE rs[i]]
    ELSE Append(rs, room)

\* TermowifiConnector._parse_response: discovery.
Connector_parse_response(rs, events, response, header_type) ==
    LET cid == response[5]
        data == response[6]
        checksum == response[7]
        checksum_calc == (cid + data + checksum_diff(header_type)) % 256
        room_id == cid - 50
    IN  IF checksum # checksum_calc
        THEN [rooms |-> rs, events |-> events, processed |-> FALSE]
        ELSE IF cid >= 50 /\ cid <= 54 /\ data = 0
        THEN IF ~RoomKnown(rs, room_id)
             THEN [rooms |-> DictSet(rs, Room(room_id)),
                   events |-> [events EXCEPT ![room_id] = @ + 1],
                   processed |-> TRUE]
             ELSE [rooms |-> rs, events |-> events, processed |-> TRUE]
        ELSE [rooms |-> rs, events |-> events, processed |-> FALSE]

\* "for room in self.rooms.values(): if room.parse_response(...): break",
\* from position i on.
RECURSIVE TryRooms(_, _, _, _)
TryRooms(rs, i, response, header_type) ==
    IF i > Len(rs)
    THEN [rooms |-> rs, fired |-> {}]
    ELSE LET res == Room_parse_response(rs[i], response, header_type)
         IN  IF res.processed
             THEN [rooms |-> [rs EXCEPT ![i] = res.room],
                   fired |-> IF res.fired THEN {rs[i].id} ELSE {}]
             ELSE TryRooms(rs, i + 1, response, header_type)

\* TermowifiConnector.process_socket_response
process_socket_response(rs, events, response) ==
    LET vh == valid_header_response(response)
    IN  IF vh # None
        THEN LET d == Connector_parse_response(rs, events, response, vh[1])
             IN  IF ~d.processed
                 THEN LET t == TryRooms(rs, 1, response, vh[1])
                      IN  [rooms |-> t.rooms, events |-> events, fired |-> t.fired]
                 ELSE [rooms |-> d.rooms, events |-> d.events, fired |-> {}]
        ELSE [rooms |-> rs, events |-> events, fired |-> {}]

----------------------------------------------------------------------------
(* Frames fed to the registry *)

Frame(header, cid, data, checksum) == header \o <<cid, data, checksum>>

\* A header that is none of the three classes.
OtherHeader == <<0, 0, 0, 0>>

\* A frame of class header whose checksum is (cid + data + offset) mod 256.
FrameWithOffset(header, cid, data, offset) ==
    Frame(header, cid, data, (cid + data + offset) % 256)

\* The claim's own reading of "checksum-valid": offset 6 for VALID_ANSWER,
\* offset 0 for VALID_CONFIRMATION.
ChecksumValid(f) ==
    \/ SubSeq(f, 1, 4) = VALID_ANSWER /\ f[7] = (f[5] + f[6] + 6) % 256
    \/ SubSeq(f, 1, 4) = VALID_CONFIRMATION /\ f[7] = (f[5] + f[6]) % 256

IsDiscoveryFrame(f) == ChecksumValid(f) /\ f[5] \in 50..54 /\ f[6] = 0

Min(a, b) == IF a < b THEN a ELSE b

NoEvents == [r \in RoomIds |-> 0]

\* process_socket_response applied to the connector's state.
Dispatch(frame) ==
    LET res == process_socket_response(rooms, newRoomEvents, frame)
    IN  /\ rooms' = res.rooms
        /\ newRoomEvents' = res.events
        /\ fired' = res.fired

\* climate.py: the "<DOMAIN>_new_room" listener builds the entity of a
\* discovered room, whose __init__ sets room.updated_callback.
EntityInit(r) ==
    /\ \E i \in 1..Len(rooms) :
          /\ rooms[i].id = r
          /\ ~rooms[i].updated_callback
          /\ rooms' = [rooms EXCEPT ![i].updated_callback = TRUE]
    /\ UNCHANGED <<newRoomEvents, fired, obsVars, connVars>>

----------------------------------------------------------------------------
(* TraceGenerator and the commands *)

\* The mutant of switch_trace: the checksum has the offset of the answers.
switch_trace_offset6(room_id, state) ==
    LET cid == 0 + room_id * 4
        data1 == IF state = 1 THEN 3 ELSE 2
    IN  SEND_COMMAND \o <<cid, data1, (cid + data1 + 6) % 256>>

\* State.ON = 1, State.OFF = 0; OperationState.HEAT = 0, OperationState.COOL = 1.
switch_trace(room_id, state) ==
    LET cid == 0 + room_id * 4
        data1 == IF state = 1 THEN 3 ELSE 2
    IN  SEND_COMMAND \o <<cid, data1, (cid + data1 + 3) % 256>>

switch_operation_mode(room_id, state) ==
    LET cid == 1 + room_id * 4
        data1 == IF state = 0 THEN 2 ELSE 3
    IN  SEND_COMMAND \o <<cid, data1, (cid + data1 + 3) % 256>>

\* The mutant of change_temperature_trace: the poll base is used.
change_temperature_trace_poll(room_id, temperature) ==
    LET cid == 3 + room_id * 4
        data1 == value_from_temperature(temperature)
    IN  SEND_COMMAND \o <<cid, data1, (cid + data1 + 3) % 256>>

change_temperature_trace(room_id, temperature) ==
    LET cid == 2 + room_id * 4
        data1 == value_from_temperature(temperature)
    IN  SEND_COMMAND \o <<cid, data1, (cid + data1 + 3) % 256>>

info_trace(room_id) ==
    LET cid == 3 + room_id * 4
        data1 == 0
    IN  SEND_COMMAND \o <<cid, data1, (cid + data1 + 3) % 256>>

\* The mutant of probe_trace: the last byte is not the checksum.
probe_trace_unsummed == SEND_COMMAND \o <<35, 0, 35>>

\* The request of async_initialize: 3B 01 FE 04 23 00 26.
probe_trace == SEND_COMMAND \o <<35, 0, 38>>

\* A command: async_initialize, update_room, set_temperature, set_state,
\* set_operation_mode, with its room_id and its argument.
Op(kind, room, arg) == [kind |-> kind, room |-> room, arg |-> arg]

NoOp == Op("none", 0, 0)

\* The message the command passes to _async_send_trace.
trace_of(op) ==
    IF op.kind = "initialize" THEN probe_trace
    ELSE IF op.kind = "update_room" THEN info_trace(op.room)
    ELSE IF op.kind = "set_temperature" THEN change_temperature_trace(op.room, op.arg)
    ELSE IF op.kind = "set_state" THEN switch_trace(op.room, op.arg)
    ELSE switch_operation_mode(op.room, op.arg)

\* The mutant of repeat_of: the default of _async_send_trace, repeat=3.
repeat_of_default(op) == 3

\* The repeat argument the command passes to _async_send_trace.
repeat_of(op) == IF op.kind = "update_room" THEN 1 ELSE 2

\* The mutant of room_found: the command does not look its room up.
room_found_always(rs, op) == TRUE

\* "room = self.rooms.get(room_id); if room:"; async_initialize needs no room.
room_found(rs, op) == op.kind = "initialize" \/ op.room \in RoomIdsOf(rs)

----------------------------------------------------------------------------
(* The connection: supervisor, senders, close *)

\* The callers of the commands: the setup of the integration and the
\* climate entities.
Senders == {"setup", "entity"}

\* A sender's call: where it is suspended (pc), its command (op), the write
\* calls made (i), the frames that reached the socket (put), how the call
\* ended (res), and whether self.writer was None under the connect lock.
IdleSender ==
    [pc |-> "idle", op |-> NoOp, i |-> 0, put |-> 0, res |-> "none", absent |-> FALSE]

\* TermowifiConnector.__init__
InitConn ==
    /\ task = "none"
    /\ supPc = "-"
    /\ cancelReq = FALSE
    /\ backoff = 1
    /\ fails = 0
    /\ eofSeen = FALSE
    /\ live = 0
    /\ writer = "null"
    /\ socks = 0
    /\ connectLock = "free"
    /\ writerLock = "free"
    /\ buffer = <<>>
    /\ wire = <<>>
    /\ snd = [s \in Senders |-> IdleSender]
    /\ closePc = "idle"

\* The mutant of LockFree: a lock that never blocks.
LockFreeAlways(l) == TRUE

\* asyncio.Lock: acquire() returns at once only when the lock is not held.
LockFree(l) == l = "free"

\* "if self.writer is None"
WriterAbsent(w) == w = "null"

\* The mutant of NextBackoff: the ceiling is missing.
NextBackoffUncapped(b) == b * 2

\* The mutant of NotConnected: the send goes on without a writer.
NotConnectedNever(w) == FALSE

\* _async_send_trace under the connect lock: "if self.writer is None"
NotConnected(w) == w = "null"

\* "backoff = min(backoff * 2, 60)"
NextBackoff(b) == Min(b * 2, 60)

\* The transport takes what write() is given unless it was closed.
Live(w) == w \in {"open", "eof"}

\* self.writer.write(message_bytes) by sender s, which has made i write calls
\* before: wire is what went to the socket since no send was in progress, the
\* last MaxWire frames of it.
Written(w, s, i, frame) ==
    LET quiet == i = 0 /\ \A t \in Senders \ {s} : snd[t].pc # "drain"
        before == IF quiet THEN <<>> ELSE w
        all == Append(before, [by |-> s, frame |-> frame])
    IN  IF ~Live(writer) THEN w
        ELSE IF Len(all) > MaxWire THEN SubSeq(all, Len(all) - MaxWire + 1, Len(all))
        ELSE all

Running == task = "running" /\ ~cancelReq

\* The mutant of TaskFinished: connect() creates a task whenever it is called.
TaskFinishedAlways(t) == TRUE

\* connect(): "if self._reader_task is None or self._reader_task.done()"
TaskFinished(t) == t \in {"none", "done"}

\* The mutant of KeepsLooping: the end of the stream ends the supervisor.
KeepsLoopingButEof(cause) == cause # "eof"

\* _reader_loop's "while True" goes on after an error (the except branches
\* neither break nor raise) and after the end of the stream (the "break" of
\* _read_socket leaves the inner loop only).
KeepsLooping(cause) == TRUE

\* The supervisor task after an error or the end of the stream.
Continues(cause) ==
    IF KeepsLooping(cause)
    THEN UNCHANGED <<task, live>>
    ELSE task' = "done" /\ live' = live - 1

\* The mutant of Closed: the cleanup does not close the socket.
ClosedNever(n, w) == n

\* writer.close() on handle w, with n sockets open before.
Closed(n, w) == IF w \in {"open", "eof"} THEN n - 1 ELSE n

\* The mutant of fresh_buffer: the bytes left from the call before are kept.
fresh_buffer_kept(buf) == buf

\* _read_socket's local 'buffer = b""': every call starts with no bytes,
\* whatever the call before had left.
fresh_buffer(buf) == <<>>

\* "self._reader_task = self.hass.loop.create_task(self._reader_loop())":
\* the new task is scheduled and will start with backoff = 1.
TaskCreated ==
    /\ task' = "running"
    /\ supPc' = "start"
    /\ cancelReq' = FALSE
    /\ backoff' = 1
    /\ fails' = 0
    /\ eofSeen' = FALSE
    /\ live' = live + 1

\* The top of _reader_loop's loop: "async with self._connect_lock" waits when
\* the lock is held; otherwise, without a writer, open_connection starts under
\* the lock, and with one _read_socket starts with an empty buffer.
LoopTop ==
    IF ~LockFree(connectLock)
    THEN supPc' = "lock" /\ UNCHANGED <<connectLock, buffer>>
    ELSE IF WriterAbsent(writer)
    THEN connectLock' = "sup" /\ supPc' = "connecting" /\ UNCHANGED buffer
    ELSE supPc' = "reading" /\ buffer' = fresh_buffer(buffer) /\ UNCHANGED connectLock

\* The supervisor task starts, or gets the connect lock it waited for.  A
\* task created while async_close was waiting for the end of the one before
\* starts after async_close, which was scheduled first, has resumed.
SupLock ==
    /\ Running
    /\ \/ supPc = "start" /\ closePc # "woken"
       \/ supPc = "lock" /\ LockFree(connectLock)
    /\ LoopTop
    /\ UNCHANGED <<task, live, cancelReq, backoff, fails, eofSeen, writer, socks, writerLock, wire, snd,
                   closePc, regVars, obsVars>>

\* open_connection succeeded: reader and writer are set, backoff is reset,
\* the lock is released and _read_socket waits for data.  received and
\* dispatched are left to the specification that observes the stream.
SupConnectOk ==
    /\ Running /\ supPc = "connecting"
    /\ writer' = "open"
    /\ socks' = socks + 1
    /\ wire' = <<>>
    /\ backoff' = 1
    /\ fails' = 0
    /\ eofSeen' = FALSE
    /\ connectLock' = "free"
    /\ supPc' = "reading"
    /\ buffer' = fresh_buffer(buffer)
    /\ UNCHANGED <<task, live, cancelReq, writerLock, snd, closePc, regVars, applyVars>>

\* The supervisor's except branches (both do the same): _async_cleanup, which
\* waits in wait_closed() when there is a writer, then sleep(backoff).  At
\* most maxFails failures in a row are followed.
Failed(maxFails) ==
    /\ fails < maxFails
    /\ fails' = fails + 1
    /\ Continues("error")
    /\ socks' = Closed(socks, writer)
    /\ UNCHANGED eofSeen
    /\ IF ~WriterAbsent(writer)
       THEN writer' = "closed" /\ supPc' = "closing"
       ELSE writer' = "null" /\ supPc' = "sleeping"

\* open_connection raised (refused, unreachable) or its 10 s timeout expired.
SupConnectFail(maxFails) ==
    /\ Running /\ supPc = "connecting"
    /\ connectLock' = "free"
    /\ Failed(maxFails)
    /\ UNCHANGED <<cancelReq, backoff, writerLock, buffer, wire, snd,
                   closePc, regVars, obsVars>>

\* The mutant of rest_of: what follows the frame is dropped.
rest_of_nothing(buf) == <<>>

\* "buffer = buffer[7:]"
rest_of(buf) == SubSeq(buf, 8, Len(buf))

\* "while len(buffer) >= 7": the frames sliced off buf, dispatched in order;
\* out collects the responses passed to process_socket_response.
RECURSIVE read_frames(_, _, _, _, _)
read_frames(buf, rs, events, fr, out) ==
    IF Len(buf) < 7
    THEN [buffer |-> buf, rooms |-> rs, events |-> events, fired |-> fr, frames |-> out]
    ELSE LET response == SubSeq(buf, 1, 7)
             res == process_socket_response(rs, events, response)
         IN  read_frames(rest_of(buf), res.rooms, res.events, res.fired,
                         Append(out, response))

\* _read_socket: reader.read() returned data.
SupRead(data) ==
    /\ Running /\ supPc = "reading"
    /\ writer = "open"
    /\ LET res == read_frames(buffer \o data, rooms, newRoomEvents, fired, <<>>)
       IN  /\ buffer' = res.buffer
           /\ rooms' = res.rooms
           /\ newRoomEvents' = res.events
           /\ fired' = res.fired
    /\ UNCHANGED <<supVars, writer, socks, connectLock, writerLock, wire, snd, closePc,
                   applyVars>>

\* The hub closed the connection: from now on read() returns b"".
PeerCloses ==
    /\ writer = "open"
    /\ writer' = "eof"
    /\ UNCHANGED <<supVars, socks, connectLock, writerLock, buffer, wire, snd, closePc, regVars, obsVars>>

\* _read_socket: read() returned b"": "break", _read_socket returns and the
\* loop of _reader_loop starts over, with no cleanup and no sleep.
SupReadEof ==
    /\ Running /\ supPc = "reading"
    /\ writer # "open"
    /\ eofSeen' = TRUE
    /\ Continues("eof")
    /\ LoopTop
    /\ UNCHANGED <<cancelReq, backoff, fails, writer, socks, writerLock, wire, snd,
                   closePc, regVars, obsVars>>

\* _read_socket raised: the 150 s watchdog expired, the socket failed, or
\* processing a frame raised.
SupReadFail(maxFails) ==
    /\ Running /\ supPc = "reading"
    /\ Failed(maxFails)
    /\ UNCHANGED <<cancelReq, backoff, connectLock, writerLock, buffer, wire,
                   snd, closePc, regVars, obsVars>>

\* _async_cleanup in the supervisor: wait_closed() returned.
SupCleanupDone ==
    /\ Running /\ supPc = "closing"
    /\ writer' = "null"
    /\ supPc' = "sleeping"
    /\ UNCHANGED <<task, live, cancelReq, backoff, fails, eofSeen, socks, connectLock, writerLock, buffer,
                   wire, snd, closePc, regVars, obsVars>>

\* sleep(backoff) is over: the backoff doubles up to the ceiling and the loop
\* starts over.
SupSleepDone ==
    /\ Running /\ supPc = "sleeping"
    /\ backoff' = NextBackoff(backoff)
    /\ LoopTop
    /\ UNCHANGED <<task, live, cancelReq, fails, eofSeen, writer, socks, writerLock, wire, snd, closePc, regVars, obsVars>>

\* CancelledError reaches the supervisor where it is suspended: it leaves the
\* loop ("break") or the except branch it was in, releasing the connect lock
\* if it held it; the task is done and async_close wakes up.
SupCancelled ==
    /\ task = "running" /\ cancelReq
    /\ task' = "done"
    /\ live' = live - 1
    /\ supPc' = "-"
    /\ cancelReq' = FALSE
    /\ connectLock' = IF connectLock = "sup" THEN "free" ELSE connectLock
    /\ closePc' = IF closePc = "awaitTask" THEN "woken" ELSE closePc
    /\ UNCHANGED <<backoff, fails, eofSeen, writer, socks, writerLock, buffer, wire, snd,
                   regVars, obsVars>>

\* _async_cleanup called by async_close: with a writer it closes it and
\* waits; without, it returns at once, and async_close with it.
CloseCleanup ==
    /\ socks' = Closed(socks, writer)
    /\ IF ~WriterAbsent(writer)
       THEN writer' = "closed" /\ closePc' = "waitClosed"
       ELSE writer' = "null" /\ closePc' = "idle"

\* async_close is called: a running task is cancelled and awaited; without a
\* task, or with a finished one, the cleanup follows at once.
CloseCall ==
    /\ closePc = "idle"
    /\ IF task = "running"
       THEN /\ cancelReq' = TRUE
            /\ closePc' = "awaitTask"
            /\ UNCHANGED <<writer, socks>>
       ELSE /\ CloseCleanup
            /\ UNCHANGED cancelReq
    /\ UNCHANGED <<task, live, supPc, backoff, fails, eofSeen, connectLock, writerLock, buffer,
                   wire, snd, regVars, obsVars>>

\* async_close resumes after "await self._reader_task".
CloseResume ==
    /\ closePc = "woken"
    /\ CloseCleanup
    /\ UNCHANGED <<supVars, connectLock, writerLock, buffer, wire, snd, regVars, obsVars>>

\* _async_cleanup in async_close: wait_closed() returned; async_close returns.
CloseCleanupDone ==
    /\ closePc = "waitClosed"
    /\ writer' = "null"
    /\ closePc' = "idle"
    /\ UNCHANGED <<supVars, socks, connectLock, writerLock, buffer, wire, snd, regVars, obsVars>>

\* One pass of "self.writer.write(message_bytes); await self.writer.drain()"
\* by sender s, whose call so far is c: write raises when self.writer is None.
WriteCopy(s, c) ==
    IF writer = "null"
    THEN /\ snd' = [snd EXCEPT ![s] = [c EXCEPT !.pc = "idle", !.res = "raised"]]
         /\ connectLock' = IF connectLock = s THEN "free" ELSE connectLock
         /\ writerLock' = IF writerLock = s THEN "free" ELSE writerLock
         /\ UNCHANGED wire
    ELSE /\ snd' = [snd EXCEPT ![s] = [c EXCEPT !.pc = "drain", !.i = @ + 1,
                                       !.put = IF Live(writer) THEN @ + 1 ELSE @]]
         /\ connectLock' = s
         /\ writerLock' = s
         /\ wire' = Written(wire, s, c.i, trace_of(c.op))

\* _async_send_trace reaches "async with self._connect_lock" with call c: it
\* waits when the lock is held.  With the lock and without a writer it warns
\* and returns.  With a writer it takes the writer lock, which is free
\* whenever the connect lock is, and writes the first copy.
SendEnter(s, c) ==
    IF ~LockFree(connectLock)
    THEN /\ snd' = [snd EXCEPT ![s] = [c EXCEPT !.pc = "lock"]]
         /\ UNCHANGED <<connectLock, writerLock, wire>>
    ELSE IF NotConnected(writer)
    THEN /\ snd' = [snd EXCEPT ![s] = [c EXCEPT !.pc = "idle", !.res = "dropped",
                                       !.absent = (writer = "null")]]
         /\ UNCHANGED <<connectLock, writerLock, wire>>
    ELSE WriteCopy(s, [c EXCEPT !.absent = (writer = "null")])

\* A command is called by sender s.  Without its room it returns at once.
\* Otherwise _async_send_trace starts: without a writer it calls connect(),
\* which creates the supervisor task unless one is running and sleeps 0.1 s.
SendCall(s, op) ==
    /\ snd[s].pc = "idle"
    /\ IF ~room_found(rooms, op)
       THEN /\ snd' = [snd EXCEPT ![s] = [IdleSender EXCEPT !.op = op, !.res = "noroom"]]
            /\ UNCHANGED <<supVars, connectLock, writerLock, wire>>
       ELSE IF WriterAbsent(writer)
       THEN /\ snd' = [snd EXCEPT ![s] = [IdleSender EXCEPT !.op = op, !.pc = "sleep"]]
            /\ IF TaskFinished(task) THEN TaskCreated ELSE UNCHANGED supVars
            /\ UNCHANGED <<connectLock, writerLock, wire>>
       ELSE /\ SendEnter(s, [IdleSender EXCEPT !.op = op])
            /\ UNCHANGED supVars
    /\ UNCHANGED <<writer, socks, buffer, closePc, regVars, obsVars>>

\* connect(): sleep(0.1) is over.  A task created meanwhile was scheduled
\* at once and has run its first step, or met its cancellation, by then.
SendWake(s) ==
    /\ snd[s].pc = "sleep"
    /\ ~(task = "running" /\ supPc = "start")
    /\ SendEnter(s, snd[s])
    /\ UNCHANGED <<supVars, writer, socks, buffer, closePc, regVars, obsVars>>

\* The sender gets the connect lock it waited for.
SendLock(s) ==
    /\ snd[s].pc = "lock"
    /\ LockFree(connectLock)
    /\ SendEnter(s, snd[s])
    /\ UNCHANGED <<supVars, writer, socks, buffer, closePc, regVars, obsVars>>

\* drain() returned.  After the last copy both locks are released and the
\* send returns; before it, the next copy is written.
SendDrained(s) ==
    /\ snd[s].pc = "drain"
    /\ IF snd[s].i >= repeat_of(snd[s].op)
       THEN /\ snd' = [snd EXCEPT ![s].pc = "idle", ![s].res = "sent"]
            /\ connectLock' = IF connectLock = s THEN "free" ELSE connectLock
            /\ writerLock' = IF writerLock = s THEN "free" ELSE writerLock
            /\ UNCHANGED wire
       ELSE WriteCopy(s, snd[s])
    /\ UNCHANGED <<supVars, writer, socks, buffer, closePc, regVars, obsVars>>

\* drain() raised: the connection is lost.  The exception leaves
\* _async_send_trace and the command, releasing both locks.
SendDrainRaised(s) ==
    /\ snd[s].pc = "drain"
    /\ writer # "open"
    /\ snd' = [snd EXCEPT ![s].pc = "idle", ![s].res = "raised"]
    /\ connectLock' = IF connectLock = s THEN "free" ELSE connectLock
    /\ writerLock' = IF writerLock = s THEN "free" ELSE writerLock
    /\ UNCHANGED <<supVars, writer, socks, buffer, wire, closePc, regVars, obsVars>>

----------------------------------------------------------------------------
(* Spec: the connector with its supervisor, two senders and close() *)

\* The commands the senders issue.
CmdOps ==
    [setup |-> {Op("initialize", 0, 0)}, entity |-> {Op("set_temperature", 1, 220)}]

\* What read() returns: the discovery answer of room 1 and its measured
\* temperature.
ReadChunks ==
    {FrameWithOffset(VALID_ANSWER, 51, 0, 6), FrameWithOffset(VALID_ANSWER, 7, 33, 6)}

Init ==
    /\ InitConn
    /\ rooms = <<>>
    /\ newRoomEvents = NoEvents
    /\ fired = {}
    /\ lastFrame = <<>>
    /\ prevRooms = <<>>
    /\ applied = 0
    /\ fedCount = [r \in RoomIds |-> 0]
    /\ codec = NoCodec
    /\ received = <<>>
    /\ dispatched = <<>>

SupReads == \E data \in ReadChunks : SupRead(data) /\ UNCHANGED streamVars

SupConnects == SupConnectOk /\ UNCHANGED streamVars

Entity == \E r \in RoomIds : EntityInit(r)

Calls == \E s \in Senders : \E op \in CmdOps[s] : SendCall(s, op)

Wakes == \E s \in Senders : SendWake(s)

Locks == \E s \in Senders : SendLock(s)

Drains == \E s \in Senders : SendDrained(s)

DrainRaises == \E s \in Senders : SendDrainRaised(s)

Next ==
    \/ SupLock \/ SupConnects \/ SupConnectFail(MaxRetries) \/ SupReads \/ PeerCloses
    \/ SupReadEof \/ SupReadFail(MaxRetries) \/ SupCleanupDone \/ SupSleepDone
    \/ SupCancelled
    \/ CloseCall \/ CloseResume \/ CloseCleanupDone
    \/ Calls \/ Wakes \/ Locks \/ Drains \/ DrainRaises
    \/ Entity

Spec == Init /\ [][Next]_vars

----------------------------------------------------------------------------
(* SpecBackoff: the supervisor alone, failing up to MaxFails times in a row *)

Start == SendCall("setup", Op("initialize", 0, 0))

NextSup ==
    \/ Start \/ Wakes \/ Locks \/ Drains \/ DrainRaises
    \/ SupLock \/ SupConnects \/ SupConnectFail(MaxFails) \/ PeerCloses
    \/ SupReadEof \/ SupReadFail(MaxFails) \/ SupCleanupDone \/ SupSleepDone

SpecBackoff == Init /\ [][NextSup]_vars

----------------------------------------------------------------------------
(* SpecFrames: any sequence of inbound frames over a fresh connector *)

FeedFrames ==
    {FrameWithOffset(VALID_ANSWER, c, 0, 6) : c \in 50..54}
    \cup {FrameWithOffset(VALID_CONFIRMATION, c, 0, 0) : c \in 50..54}
    \cup {FrameWithOffset(VALID_ANSWER, 50, 0, 0),
          FrameWithOffset(VALID_CONFIRMATION, 51, 0, 6),
          FrameWithOffset(VALID_ANSWER, 52, 1, 6),
          FrameWithOffset(VALID_ANSWER, 49, 0, 6),
          FrameWithOffset(VALID_CONFIRMATION, 55, 0, 0),
          FrameWithOffset(SEND_COMMAND, 53, 0, 6),
          FrameWithOffset(SEND_COMMAND, 35, 0, 3),
          FrameWithOffset(OtherHeader, 54, 0, 6),
          FrameWithOffset(VALID_ANSWER, 0, 3, 6),
          FrameWithOffset(VALID_ANSWER, 0, 2, 6)}

InitFrames ==
    /\ InitConn
    /\ rooms = <<>>
    /\ newRoomEvents = NoEvents
    /\ fired = {}
    /\ lastFrame = <<>>
    /\ prevRooms = <<>>
    /\ applied = 0
    /\ fedCount = [r \in RoomIds |-> 0]
    /\ codec = NoCodec
    /\ received = <<>>
    /\ dispatched = <<>>

\* One inbound frame; fedCount observes the valid discovery frames.
Feed ==
    \E f \in FeedFrames :
        /\ Dispatch(f)
        /\ fedCount' = IF IsDiscoveryFrame(f)
                       THEN [fedCount EXCEPT ![f[5] - 50] = Min(@ + 1, MaxFed)]
                       ELSE fedCount
        /\ UNCHANGED <<lastFrame, prevRooms, applied, codec, streamVars, connVars>>

NextFrames == Feed

SpecFrames == InitFrames /\ [][NextFrames]_vars

----------------------------------------------------------------------------
(* SpecApply: one frame applied, and applied again, to a registry *)

\* A room whose five fields are known.
PopulatedRoom(id, cb) ==
    [id |-> id, state |-> Some("ON"), operation_state |-> Some("HEAT"),
     temperature |-> Some(645), conf_temperature |-> Some(220),
     humidity |-> Some(50), updated_callback |-> cb]

FreshRoom(id, cb) == [Room(id) EXCEPT !.updated_callback = cb]

ApplyRegistries ==
    { <<>>,
      [i \in 1..5 |-> FreshRoom(i - 1, TRUE)],
      [i \in 1..5 |-> PopulatedRoom(5 - i, TRUE)],
      <<PopulatedRoom(3, TRUE), FreshRoom(1, FALSE)>> }

ApplyCids == (0..20) \cup (49..55) \cup (99..105) \cup {255}

ApplyFrames ==
    {FrameWithOffset(h, c, d, o) :
        h \in {VALID_ANSWER, VALID_CONFIRMATION, SEND_COMMAND, OtherHeader},
        c \in ApplyCids, d \in Byte, o \in {0, 1, 6}}

InitApply ==
    /\ InitConn
    /\ rooms \in ApplyRegistries
    /\ newRoomEvents = [r \in RoomIds |-> IF r \in RoomIdsOf(rooms) THEN 1 ELSE 0]
    /\ fedCount = [r \in RoomIds |-> IF r \in RoomIdsOf(rooms) THEN 1 ELSE 0]
    /\ codec = NoCodec
    /\ received = <<>>
    /\ dispatched = <<>>
    /\ fired = {}
    /\ lastFrame \in ApplyFrames
    /\ prevRooms = rooms
    /\ applied = 0

\* lastFrame is applied once more; prevRooms keeps the registry before it.
Apply ==
    /\ applied < MaxApplied
    /\ Dispatch(lastFrame)
    /\ prevRooms' = rooms
    /\ applied' = applied + 1
    /\ UNCHANGED <<lastFrame, fedCount, codec, streamVars, connVars>>

NextApply == Apply

SpecApply == InitApply /\ [][NextApply]_vars

----------------------------------------------------------------------------
(* SpecSend: every set_temperature command over a live connection *)

\* The targets of set_temperature: 15.0 to 35.0 in steps of 0.5.
Targets == {150 + 5 * k : k \in 0..40}

SendOps ==
    [setup |-> {Op("update_room", r, 0) : r \in RoomIds},
     entity |-> {Op("set_temperature", r, t) : r \in RoomIds, t \in Targets}]

\* Connected, reading, the five rooms discovered.
InitSend ==
    /\ task = "running"
    /\ supPc = "reading"
    /\ cancelReq = FALSE
    /\ backoff = 1
    /\ fails = 0
    /\ eofSeen = FALSE
    /\ live = 1
    /\ writer = "open"
    /\ socks = 1
    /\ connectLock = "free"
    /\ writerLock = "free"
    /\ buffer = <<>>
    /\ wire = <<>>
    /\ snd = [s \in Senders |-> IdleSender]
    /\ closePc = "idle"
    /\ rooms = [i \in 1..5 |-> FreshRoom(i - 1, TRUE)]
    /\ newRoomEvents = NoEvents
    /\ fired = {}
    /\ lastFrame = <<>>
    /\ prevRooms = <<>>
    /\ applied = 0
    /\ fedCount = [r \in RoomIds |-> 0]
    /\ codec = NoCodec
    /\ received = <<>>
    /\ dispatched = <<>>

CallsSend == \E s \in Senders : \E op \in SendOps[s] : SendCall(s, op)

NextSend == CallsSend \/ Locks \/ Drains

SpecSend == InitSend /\ [][NextSend]_vars

----------------------------------------------------------------------------
(* SpecCmd: every command of every room over a live connection *)

\* The commands of a room, with State and OperationState as 0 and 1.
RoomOps ==
    {Op("set_state", r, a) : r \in RoomIds, a \in {0, 1}}
    \cup {Op("set_operation_mode", r, a) : r \in RoomIds, a \in {0, 1}}
    \cup {Op("set_temperature", r, t) : r \in RoomIds, t \in Targets}
    \cup {Op("update_room", r, 0) : r \in RoomIds}

Command == \E op \in RoomOps : SendCall("entity", op)

NextCmd == Command \/ Drains

SpecCmd == InitSend /\ [][NextCmd]_vars

----------------------------------------------------------------------------
(* SpecStream: one connection's byte stream, split across reads in any way *)

\* A read returns at most this many bytes.
MaxChunk == 15

StreamFrames ==
    {FrameWithOffset(VALID_ANSWER, 50, 0, 6), FrameWithOffset(VALID_ANSWER, 51, 0, 6),
     FrameWithOffset(VALID_ANSWER, 3, 33, 6), <<59, 1, 59, 1, 1, 4, 59>>}

\* What the hub sends: three frames and the start of a fourth.
Streams == {f \o g \o h \o <<59, 1>> : f, g, h \in StreamFrames}

\* What the next read() may return after the bytes got so far.
NextChunks(got) ==
    UNION {{SubSeq(st, Len(got) + 1, Len(got) + n) :
                n \in 1..Min(MaxChunk, Len(st) - Len(got))} :
            st \in {t \in Streams : SubSeq(t, 1, Len(got)) = got}}

\* Connected and reading, nothing received.
InitStream ==
    /\ task = "running"
    /\ supPc = "reading"
    /\ cancelReq = FALSE
    /\ backoff = 1
    /\ fails = 0
    /\ eofSeen = FALSE
    /\ live = 1
    /\ writer = "open"
    /\ socks = 1
    /\ connectLock = "free"
    /\ writerLock = "free"
    /\ buffer = <<>>
    /\ wire = <<>>
    /\ snd = [s \in Senders |-> IdleSender]
    /\ closePc = "idle"
    /\ rooms = <<>>
    /\ newRoomEvents = NoEvents
    /\ fired = {}
    /\ lastFrame = <<>>
    /\ prevRooms = <<>>
    /\ applied = 0
    /\ fedCount = [r \in RoomIds |-> 0]
    /\ codec = NoCodec
    /\ received = <<>>
    /\ dispatched = <<>>

\* One read of the stream; received and dispatched observe it.
StreamRead ==
    \E data \in NextChunks(received) :
        /\ SupRead(data)
        /\ received' = received \o data
        /\ dispatched' =
             dispatched \o read_frames(buffer \o data, rooms, newRoomEvents, fired, <<>>).frames

NextStream == StreamRead

SpecStream == InitStream /\ [][NextStream]_vars

----------------------------------------------------------------------------
(* SpecReconnect: byte streams over connections that fail and are reopened *)

\* open_connection succeeded: received and dispatched start over, and
\* observe the new connection.
Reconnected ==
    /\ SupConnectOk
    /\ received' = <<>>
    /\ dispatched' = <<>>

NextReconnect ==
    \/ StreamRead \/ Reconnected \/ SupConnectFail(MaxRetries) \/ PeerCloses
    \/ SupReadEof \/ SupReadFail(MaxRetries) \/ SupCleanupDone \/ SupSleepDone

SpecReconnect == InitStream /\ [][NextReconnect]_vars

----------------------------------------------------------------------------
(* SpecCodec: a byte decoded and the result encoded again, or a target
   temperature encoded *)

\* The conversions that have an inverse in termowifi_tools.py.
CodecKinds == {"target", "ambient"}

decode_of(kind, value) ==
    IF kind = "target" THEN temperature_from_value(value) ELSE value_to_ambient(value)

\* The temperatures a caller may pass to set_temperature: 15.0 to 35.0 in
\* steps of 0.1.
SetTemperatures == 150..350

encode_of(kind, temperature) ==
    IF kind \in {"target", "set"} THEN value_from_temperature(temperature)
    ELSE ambient_to_value(temperature)

InitCodec ==
    /\ InitConn
    /\ rooms = <<>>
    /\ newRoomEvents = NoEvents
    /\ fired = {}
    /\ lastFrame = <<>>
    /\ prevRooms = <<>>
    /\ applied = 0
    /\ fedCount = [r \in RoomIds |-> 0]
    /\ received = <<>>
    /\ dispatched = <<>>
    /\ codec \in [kind : CodecKinds, x : Byte, y : {None}, z : {None}]
                  \cup [kind : {"set"}, x : {0}, y : {Some(t) : t \in SetTemperatures},
                        z : {None}]

Decode ==
    /\ codec.y = None
    /\ codec' = [codec EXCEPT !.y = Some(decode_of(codec.kind, codec.x))]
    /\ UNCHANGED <<regVars, lastFrame, prevRooms, applied, fedCount, streamVars, connVars>>

Encode ==
    /\ codec.y # None /\ codec.z = None
    /\ codec' = [codec EXCEPT !.z = Some(encode_of(codec.kind, codec.y[1]))]
    /\ UNCHANGED <<regVars, lastFrame, prevRooms, applied, fedCount, streamVars, connVars>>

NextCodec == Decode \/ Encode

SpecCodec == InitCodec /\ [][NextCodec]_vars

----------------------------------------------------------------------------
(* SpecLive: Spec on an event loop where awaiting a read that is already
   finished does not suspend the task, with the progress that loop, the
   timers and the locks guarantee *)

\* The supervisor has met the end of the stream: read() returns b"" at once,
\* no exception is raised, and _reader_loop calls _read_socket again.  Where
\* "await asyncio.wait_for(self.reader.read(1024), timeout=150)" does not
\* suspend on a finished read (wait_for without an inner task), the task
\* suspends only to wait for the connect lock, and until it does the event
\* loop runs no other task, timer or call.
Spinning == task = "running" /\ supPc = "reading" /\ eofSeen

\* A step of another task, a timer or a caller: the event loop runs it only
\* once the running task has suspended.
Scheduled(A) == ~Spinning /\ A

NextLive ==
    \/ SupReadEof
    \/ Scheduled(SupLock)
    \/ Scheduled(SupConnects)
    \/ Scheduled(SupConnectFail(MaxRetries))
    \/ Scheduled(SupReads)
    \/ Scheduled(PeerCloses)
    \/ Scheduled(SupReadFail(MaxRetries))
    \/ Scheduled(SupCleanupDone)
    \/ Scheduled(SupSleepDone)
    \/ Scheduled(SupCancelled)
    \/ Scheduled(CloseCall)
    \/ Scheduled(CloseResume)
    \/ Scheduled(CloseCleanupDone)
    \/ Scheduled(Calls)
    \/ Scheduled(Wakes)
    \/ Scheduled(Locks)
    \/ Scheduled(Drains)
    \/ Scheduled(DrainRaises)
    \/ Scheduled(Entity)

\* Ready tasks run, timers expire, wait_closed() returns, asyncio.Lock serves
\* its waiters in order, connect attempts end within their 10 s timeout and
\* succeed when repeated often enough, and drain() ends.
Fairness ==
    /\ SF_vars(Scheduled(SupLock))
    /\ SF_vars(Scheduled(SupConnects))
    /\ WF_vars(Scheduled(SupConnects \/ SupConnectFail(MaxRetries)))
    /\ WF_vars(SupReadEof)
    /\ WF_vars(Scheduled(SupCleanupDone))
    /\ WF_vars(Scheduled(SupSleepDone))
    /\ WF_vars(Scheduled(SupCancelled))
    /\ WF_vars(Scheduled(CloseResume))
    /\ WF_vars(Scheduled(CloseCleanupDone))
    /\ \A s \in Senders :
          /\ SF_vars(Scheduled(SendWake(s)))
          /\ SF_vars(Scheduled(SendLock(s)))
          /\ WF_vars(Scheduled(SendDrained(s) \/ SendDrainRaised(s)))

SpecLive == Init /\ [][NextLive]_vars /\ Fairness

----------------------------------------------------------------------------
(* SpecHistory: a sequence of inbound frames over a fresh connector, kept *)

\* The frames kept.
MaxHistory == 4

\* Discovery answers of rooms 0 and 1; for room 0 the measured temperature
\* (two values, a bad checksum, the 0x00 marker), the power state (on, off,
\* an unknown byte) and the humidity; the measured temperature of room 1.
HistoryFrames ==
    {FrameWithOffset(VALID_ANSWER, 50, 0, 6),
     FrameWithOffset(VALID_CONFIRMATION, 51, 0, 0),
     FrameWithOffset(VALID_ANSWER, 3, 33, 6),
     FrameWithOffset(VALID_CONFIRMATION, 3, 34, 0),
     FrameWithOffset(VALID_ANSWER, 3, 35, 0),
     FrameWithOffset(VALID_ANSWER, 3, 0, 6),
     FrameWithOffset(VALID_ANSWER, 0, 3, 6),
     FrameWithOffset(VALID_ANSWER, 0, 2, 6),
     FrameWithOffset(VALID_ANSWER, 0, 5, 6),
     FrameWithOffset(VALID_ANSWER, 100, 128, 6),
     FrameWithOffset(VALID_ANSWER, 7, 33, 6)}

\* One inbound frame; dispatched keeps the frames processed so far.
FeedHistory ==
    \E f \in HistoryFrames :
        /\ Len(dispatched) < MaxHistory
        /\ Dispatch(f)
        /\ dispatched' = Append(dispatched, f)
        /\ UNCHANGED <<applyVars, received, connVars>>

NextHistory == FeedHistory

SpecHistory == InitFrames /\ [][NextHistory]_vars

----------------------------------------------------------------------------
(* SpecUnknown: commands for known and unknown rooms, from a connector that
   knows room 1 and is not connected *)

\* Every command for the rooms 0, 1 and 2.
UnknownOps ==
    {Op(k, r, a) : k \in {"set_state", "set_operation_mode"}, r \in 0..2, a \in {0, 1}}
    \cup {Op("set_temperature", r, 220) : r \in 0..2}
    \cup {Op("update_room", r, 0) : r \in 0..2}

InitUnknown ==
    /\ InitConn
    /\ rooms = <<FreshRoom(1, TRUE)>>
    /\ newRoomEvents = [r \in RoomIds |-> IF r = 1 THEN 1 ELSE 0]
    /\ fired = {}
    /\ lastFrame = <<>>
    /\ prevRooms = <<>>
    /\ applied = 0
    /\ fedCount = [r \in RoomIds |-> 0]
    /\ codec = NoCodec
    /\ received = <<>>
    /\ dispatched = <<>>

CallsUnknown == \E s \in Senders : \E op \in UnknownOps : SendCall(s, op)

NextUnknown ==
    \/ CallsUnknown \/ Wakes \/ Locks \/ Drains
    \/ SupLock \/ SupConnects \/ SupConnectFail(MaxRetries) \/ SupSleepDone

SpecUnknown == InitUnknown /\ [][NextUnknown]_vars

----------------------------------------------------------------------------
(* SpecPoll: update_rooms by one caller, with the supervisor connecting,
   reading and failing, and another caller sending the probe *)

Poller == "entity"

\* "rooms = list(self.rooms.values())": the ids of the registry, in its order.
rooms_list(rs) == [k \in 1..Len(rs) |-> rs[k].id]

\* The mutant of next_rooms: the loop goes over the registry as it is now.
next_rooms_live(todo, rs) ==
    LET ids == rooms_list(rs)
        p == CHOOSE k \in 1..Len(ids) : ids[k] = Head(todo)
    IN  SubSeq(ids, p + 1, Len(ids))

\* "for room in rooms": the rooms left after the one at the head of todo.
next_rooms(todo, rs) == Tail(todo)

\* The connect lock was released with a task waiting for it: asyncio.Lock
\* hands it to the first waiter, and a new acquire() waits behind it.
HasWaiters(s) == supPc = "lock" \/ \E t \in Senders \ {s} : snd[t].pc = "lock"

ReleasedBy(s, l) == IF l = s THEN "free" ELSE l

\* update_rooms returns, or is left by an exception.
PollReturn(s, c, res) ==
    /\ snd' = [snd EXCEPT ![s] = [c EXCEPT !.pc = "idle", !.res = res]]
    /\ connectLock' = ReleasedBy(s, connectLock)
    /\ writerLock' = ReleasedBy(s, writerLock)
    /\ UNCHANGED <<supVars, wire>>

\* _async_send_trace without a writer: connect(), which creates the
\* supervisor task unless one is running, and sleeps 0.1 s.
PollSleep(s, c) ==
    /\ snd' = [snd EXCEPT ![s] = [c EXCEPT !.pc = "sleep"]]
    /\ IF TaskFinished(task) THEN TaskCreated ELSE UNCHANGED supVars
    /\ connectLock' = ReleasedBy(s, connectLock)
    /\ writerLock' = ReleasedBy(s, writerLock)
    /\ UNCHANGED wire

\* Under both locks: the one write() of the poll frame of the room at the
\* head of todo (repeat=1), then drain().
PollWrite(s, c) ==
    LET op == Op("update_room", Head(c.todo), 0)
    IN  /\ snd' = [snd EXCEPT ![s] =
                     [c EXCEPT !.pc = "drain", !.op = op, !.i = @ + 1,
                               !.put = IF Live(writer) THEN @ + 1 ELSE @,
                               !.log = IF Live(writer) THEN Append(@, Head(c.todo)) ELSE @]]
        /\ connectLock' = s
        /\ writerLock' = s
        /\ wire' = Written(wire, s, c.i, trace_of(op))
        /\ UNCHANGED supVars

\* One _async_send_trace of the loop has returned: the loop goes on with the
\* next room of the list, or update_rooms returns.
PollAfter(s, c, dropped) ==
    LET d == [c EXCEPT !.todo = next_rooms(c.todo, rooms),
                       !.drops = IF dropped THEN @ + 1 ELSE @]
    IN  IF d.todo = <<>> THEN PollReturn(s, d, "done")
        ELSE IF WriterAbsent(writer) THEN PollSleep(s, d)
        ELSE IF HasWaiters(s)
        THEN /\ snd' = [snd EXCEPT ![s] = [d EXCEPT !.pc = "lock"]]
             /\ connectLock' = ReleasedBy(s, connectLock)
             /\ writerLock' = ReleasedBy(s, writerLock)
             /\ UNCHANGED <<supVars, wire>>
        ELSE PollWrite(s, d)

\* _async_send_trace reaches "async with self._connect_lock".
PollEnter(s, c) ==
    IF ~LockFree(connectLock)
    THEN /\ snd' = [snd EXCEPT ![s] = [c EXCEPT !.pc = "lock"]]
         /\ UNCHANGED <<supVars, connectLock, writerLock, wire>>
    ELSE IF NotConnected(writer) THEN PollAfter(s, c, TRUE)
    ELSE PollWrite(s, c)

\* update_rooms is called: the list of the rooms is made, and the first
\* _async_send_trace starts.
PollCall(s) ==
    /\ snd[s].pc = "idle"
    /\ LET c == [pc |-> "idle", op |-> Op("update_rooms", 0, 0), i |-> 0, put |-> 0,
                 res |-> "none", absent |-> FALSE,
                 snap |-> rooms_list(rooms), todo |-> rooms_list(rooms),
                 log |-> <<>>, drops |-> 0]
       IN  IF c.todo = <<>> THEN PollReturn(s, c, "done")
           ELSE IF WriterAbsent(writer) THEN PollSleep(s, c)
           ELSE PollEnter(s, c)
    /\ UNCHANGED <<writer, socks, buffer, closePc, regVars, obsVars>>

\* connect(): sleep(0.1) is over.
PollWake(s) ==
    /\ snd[s].pc = "sleep"
    /\ ~(task = "running" /\ supPc = "start")
    /\ PollEnter(s, snd[s])
    /\ UNCHANGED <<writer, socks, buffer, closePc, regVars, obsVars>>

\* update_rooms gets the connect lock it waited for.
PollLock(s) ==
    /\ snd[s].pc = "lock"
    /\ LockFree(connectLock)
    /\ PollEnter(s, snd[s])
    /\ UNCHANGED <<writer, socks, buffer, closePc, regVars, obsVars>>

\* drain() returned: both locks are released and the send returns.
PollDrained(s) ==
    /\ snd[s].pc = "drain"
    /\ PollAfter(s, snd[s], FALSE)
    /\ UNCHANGED <<writer, socks, buffer, closePc, regVars, obsVars>>

\* drain() raised: the exception leaves _async_send_trace and update_rooms.
PollDrainRaised(s) ==
    /\ snd[s].pc = "drain"
    /\ writer # "open"
    /\ PollReturn(s, snd[s], "raised")
    /\ UNCHANGED <<writer, socks, buffer, closePc, regVars, obsVars>>

\* What read() returns: the discovery answer of room 2.
PollChunks == {FrameWithOffset(VALID_ANSWER, 52, 0, 6)}

\* Rooms 0 and 1 are known, and there is no connection.
InitPoll ==
    /\ InitConn
    /\ rooms = <<FreshRoom(0, TRUE), FreshRoom(1, TRUE)>>
    /\ newRoomEvents = [r \in RoomIds |-> IF r \in {0, 1} THEN 1 ELSE 0]
    /\ fired = {}
    /\ lastFrame = <<>>
    /\ prevRooms = <<>>
    /\ applied = 0
    /\ fedCount = [r \in RoomIds |-> 0]
    /\ codec = NoCodec
    /\ received = <<>>
    /\ dispatched = <<>>

PollReads == \E data \in PollChunks : SupRead(data) /\ UNCHANGED streamVars

NextPoll ==
    \/ PollCall(Poller) \/ PollWake(Poller) \/ PollLock(Poller)
    \/ PollDrained(Poller) \/ PollDrainRaised(Poller)
    \/ Start \/ SendWake("setup") \/ SendLock("setup")
    \/ SendDrained("setup") \/ SendDrainRaised("setup")
    \/ SupLock \/ SupConnects \/ SupConnectFail(MaxRetries) \/ PollReads \/ PeerCloses
    \/ SupReadEof \/ SupReadFail(MaxRetries) \/ SupCleanupDone \/ SupSleepDone

SpecPoll == InitPoll /\ [][NextPoll]_vars

----------------------------------------------------------------------------
(* Claims about discovery and Room decoding *)

RoomById(rs, r) == rs[CHOOSE i \in 1..Len(rs) : rs[i].id = r]

\* C1: after any sequence of inbound frames, a room id is in the registry
\* exactly when a checksum-valid discovery frame (cid 0x32 + id, data 0x00)
\* has been fed, its "room discovered" event has been published exactly once
\* however often the frame was repeated, no id is stored twice, and once all
\* five cids have been fed the rooms are exactly those with ids 0..4.
C1_DiscoveryOnce ==
    /\ \A r \in RoomIds :
          /\ (fedCount[r] > 0) <=> (r \in RoomIdsOf(rooms))
          /\ newRoomEvents[r] = IF fedCount[r] > 0 THEN 1 ELSE 0
    /\ Cardinality(RoomIdsOf(rooms)) = Len(rooms)
    /\ (\A r \in RoomIds : fedCount[r] > 0)
          => (RoomIdsOf(rooms) = 0..4 /\ Len(rooms) = 5)

\* All five discovery frames have been fed, each more than once.
C1_Witness ==
    /\ \A r \in RoomIds : fedCount[r] >= 2 /\ newRoomEvents[r] = 1
    /\ RoomIdsOf(rooms) = 0..4

\* The room a state frame addresses: cid in 4r..4r+3, or cid = 0x64 + r.
Addresses(f, r) == f[5] \in (4 * r)..(4 * r + 3) \/ f[5] = 100 + r

IsStateFrame(f) ==
    ChecksumValid(f) /\ \E r \in RoomIdsOf(prevRooms) : Addresses(f, r)

\* C2: the second of two consecutive applications of the same checksum-valid
\* state frame leaves every field of every room unchanged and fires no
\* "changed" callback, for every room, channel and data byte.
C2_SecondApplicationSilent ==
    (applied >= 2 /\ IsStateFrame(lastFrame))
        => (rooms = prevRooms /\ fired = {})

\* 3B 01 01 04 03 21 2A applied twice to five fresh rooms with callbacks: the
\* first application set room 0's temperature, the second fired nothing.
C2_Witness ==
    /\ applied = 2
    /\ lastFrame = <<59, 1, 1, 4, 3, 33, 42>>
    /\ Len(rooms) = 5
    /\ rooms[1].id = 0 /\ rooms[1].updated_callback
    /\ rooms[1].temperature = Some(645) /\ rooms[1].humidity = None
    /\ fired = {}

\* The field and domain value a frame carries for room r, if any: the frame
\* is checksum-valid, addressed to r, its data byte is not the 0x00 marker,
\* and on the power and mode channels the byte is 2 or 3.
Carried(f, r) ==
    LET v == f[6]
    IN  IF ~ChecksumValid(f) \/ v = 0 THEN None
        ELSE IF f[5] = 4 * r
        THEN (IF v = 3 THEN <<"state", Some("ON")>>
              ELSE IF v = 2 THEN <<"state", Some("OFF")>> ELSE None)
        ELSE IF f[5] = 4 * r + 1
        THEN (IF v = 2 THEN <<"operation_state", Some("HEAT")>>
              ELSE IF v = 3 THEN <<"operation_state", Some("COOL")>> ELSE None)
        ELSE IF f[5] = 4 * r + 2 THEN <<"conf_temperature", Some((v - 30) * 5 + 150)>>
        ELSE IF f[5] = 4 * r + 3 THEN <<"temperature", Some(455 - (v - 71) * 5)>>
        ELSE IF f[5] = 100 + r THEN <<"humidity", Some((v * 100) \div 255)>>
        ELSE None

\* C3: for a room with a registered callback, processing a frame fires the
\* callback if and only if the frame carries a value for that room whose
\* decoded domain value differs from the value stored in the addressed field;
\* a room without callback fires nothing.
C3_FiresIffDecodedDiffers ==
    applied >= 1 =>
        \A i \in 1..Len(prevRooms) :
            LET room == prevRooms[i]
                c == Carried(lastFrame, room.id)
            IN  (room.id \in fired)
                    <=> (room.updated_callback /\ c # None /\ room[c[1]] # c[2])

\* Humidity byte 129 decodes to 50 %, the value room 0 already stores (byte
\* 128 decodes to 50 % as well): nothing fires.
C3_Witness ==
    /\ applied = 1
    /\ lastFrame = <<59, 1, 1, 4, 100, 129, 235>>
    /\ Len(prevRooms) = 5
    /\ RoomById(prevRooms, 0).humidity = Some(50)
    /\ RoomById(prevRooms, 0).updated_callback
    /\ fired = {}

\* The checksum offset of a frame's header class: 6 for VALID_ANSWER, 0 for
\* VALID_CONFIRMATION, 3 for SEND_COMMAND; a frame of no class has none.
BadChecksum(f) ==
    LET h == SubSeq(f, 1, 4)
    IN  IF h = VALID_ANSWER THEN f[7] # (f[5] + f[6] + 6) % 256
        ELSE IF h = VALID_CONFIRMATION THEN f[7] # (f[5] + f[6]) % 256
        ELSE IF h = SEND_COMMAND THEN f[7] # (f[5] + f[6] + 3) % 256
        ELSE TRUE

\* C4: a 7-byte frame whose trailing byte is not the checksum of its header
\* class is discarded: the registry holds the same rooms with the same
\* fields, and no discovery or change event is fired.
C4_BadChecksumDiscarded ==
    (applied >= 1 /\ BadChecksum(lastFrame))
        => /\ rooms = prevRooms
           /\ fired = {}
           /\ \A r \in RoomIds :
                 newRoomEvents[r] = IF r \in RoomIdsOf(prevRooms) THEN 1 ELSE 0

\* A VALID_ANSWER frame for room 0's measured temperature that carries the
\* VALID_CONFIRMATION checksum (offset 0) was applied to five fresh rooms.
C4_Witness ==
    /\ applied = 1
    /\ lastFrame = <<59, 1, 1, 4, 3, 33, 36>>
    /\ Len(rooms) = 5
    /\ rooms[1].id = 0 /\ rooms[1].temperature = None

\* C5: for every known room r and data byte d # 0, the VALID_ANSWER frame
\* with cid 4r+3 and checksum (cid+d+6) mod 256 sets room r's measured
\* temperature to 45.5 - (d-71)*0.5 and fires room r's callback, and no
\* other, exactly when the room has a callback and that value is new;
\* 3B 01 01 04 03 21 2A sets room 0's measured temperature to 64.5.
C5_MeasuredTemperature ==
    /\ \A r \in RoomIdsOf(prevRooms) :
          LET d == lastFrame[6]
          IN  (/\ applied >= 1
               /\ SubSeq(lastFrame, 1, 4) = VALID_ANSWER
               /\ lastFrame[5] = 4 * r + 3
               /\ d # 0
               /\ lastFrame[7] = (lastFrame[5] + d + 6) % 256)
              => /\ RoomById(rooms, r).temperature = Some(455 - (d - 71) * 5)
                 /\ fired \subseteq {r}
                 /\ (r \in fired) <=>
                        /\ RoomById(prevRooms, r).updated_callback
                        /\ RoomById(prevRooms, r).temperature # Some(455 - (d - 71) * 5)
    /\ (applied >= 1 /\ lastFrame = <<59, 1, 1, 4, 3, 33, 42>> /\ 0 \in RoomIdsOf(prevRooms))
          => RoomById(rooms, 0).temperature = Some(645)

\* 3B 01 01 04 03 21 2A applied once to five fresh rooms: room 0 reads 64.5
\* and its callback fired.
C5_Witness ==
    /\ applied = 1
    /\ lastFrame = <<59, 1, 1, 4, 3, 33, 42>>
    /\ 0 \in RoomIdsOf(prevRooms)
    /\ RoomById(prevRooms, 0).temperature = None
    /\ RoomById(rooms, 0).temperature = Some(645)
    /\ fired = {0}

\* The frame the specification gives for a target t (in tenths of a degree)
\* of room r.
TargetFrame(r, t) ==
    LET cid == 2 + 4 * r
        data == (2 * (t - 150)) \div 10 + 30
    IN  <<59, 1, 254, 4, cid, data, (cid + data + 3) % 256>>

\* C6: on a live connection, set_temperature(r, t) for a known room r and a
\* target t of 15.0 to 35.0 in steps of 0.5 writes the frame 3B 01 FE 04,
\* cid = 2 + 4r, data = 2 * (t - 15) + 30, checksum = (cid + data + 3) mod 256,
\* copy after copy with nothing between them, and returns after exactly two
\* copies; for r = 1 and t = 22.0 the frame is 3B 01 FE 04 06 2C 35.
C6_TwoCopiesOfTargetFrame ==
    /\ TargetFrame(1, 220) = <<59, 1, 254, 4, 6, 44, 53>>
    /\ \A s \in Senders :
        LET c == snd[s] IN
        c.op.kind = "set_temperature" =>
            /\ c.res \in {"none", "sent"}
            /\ c.res = "sent" => (c.i = 2 /\ c.put = 2)
            /\ c.pc = "drain" =>
                /\ c.i \in 1..2
                /\ c.put = c.i
                /\ Len(wire) >= c.i
                /\ \A k \in 1..c.i :
                    wire[Len(wire) - k + 1] =
                        [by |-> s, frame |-> TargetFrame(c.op.room, c.op.arg)]

C6_Witness ==
    /\ snd["entity"].op = Op("set_temperature", 1, 220)
    /\ snd["entity"].res = "sent"
    /\ wire = <<[by |-> "entity", frame |-> <<59, 1, 254, 4, 6, 44, 53>>],
                [by |-> "entity", frame |-> <<59, 1, 254, 4, 6, 44, 53>>]>>

\* The delay the specification gives after the k-th failure in a row.
Delay(k) == Min(2 ^ (k - 1), 60)

\* C7: the sleep that follows the k-th failure in a row since the last
\* successful connect, or since the start, lasts min(2^(k-1), 60) seconds; a
\* successful connect makes the next failure sleep 1 second again; the backoff
\* is always within 1..60.
C7_BackoffSchedule ==
    /\ backoff \in 1..60
    /\ task = "running" =>
        IF supPc \in {"closing", "sleeping"}
        THEN fails >= 1 /\ backoff = Delay(fails)
        ELSE backoff = Delay(fails + 1)

C7_Witness ==
    /\ task = "running"
    /\ supPc = "sleeping"
    /\ fails = 8
    /\ backoff = 60

\* C8: whatever the callers do, a send in progress has the socket to itself:
\* only one call is between its first write and its return, and the copies it
\* has written are the last frames on the socket, whole and with no other
\* caller's frame among them.
C8_CopiesContiguous ==
    /\ Cardinality({s \in Senders : snd[s].pc = "drain"}) <= 1
    /\ \A k \in 1..Len(wire) : Len(wire[k].frame) = 7
    /\ \A s \in Senders :
        snd[s].pc = "drain" =>
            LET n == Min(snd[s].put, MaxWire) IN
            /\ Len(wire) >= n
            /\ \A k \in 1..n :
                wire[Len(wire) - k + 1] = [by |-> s, frame |-> trace_of(snd[s].op)]

C8_Witness ==
    /\ snd["entity"].pc = "drain"
    /\ snd["entity"].put = 2
    /\ snd["setup"].pc = "lock"
    /\ Len(wire) = 2

\* C9: a send issued without a socket starts the supervisor unless it is
\* running; no send gets past a connect in progress; and a send that finds no
\* socket once it has the connect lock writes nothing and returns normally.
C9_SendWithoutSocket ==
    /\ [](\A s \in Senders :
            snd[s].absent =>
                (snd[s].pc = "idle" /\ snd[s].res = "dropped" /\ snd[s].i = 0))
    /\ [](supPc = "connecting" =>
            (connectLock = "sup" /\ \A s \in Senders : snd[s].pc # "drain"))
    /\ [][\A s \in Senders :
            /\ (snd[s].pc = "idle" /\ snd'[s].pc # "idle" /\ writer = "null")
                => (snd'[s].pc = "sleep" /\ task' = "running")
            /\ (supPc = "connecting" /\ snd[s].pc # "idle") => snd'[s].pc # "idle"]_vars

C9_Witness ==
    /\ snd["setup"].absent
    /\ snd["setup"].res = "dropped"
    /\ task = "running"
    /\ fails >= 1
    /\ writer = "null"

\* C10: when async_close returns, the supervisor task is not running and
\* there is no socket.
C10_CloseStopsSupervisor ==
    [][(closePc # "idle" /\ closePc' = "idle")
        => (task' # "running" /\ writer' = "null")]_vars

----------------------------------------------------------------------------
(* Claims about the commands, the codec and the supervisor *)

\* The discovery probe of the specification: 3B 01 FE 04 23 00 26.
Probe == <<59, 1, 254, 4, 35, 0, 38>>

\* The calls of async_initialize that have returned.
ReturnedInitialize ==
    {s \in Senders : snd[s].op.kind = "initialize" /\ snd[s].pc = "idle"
                     /\ snd[s].res # "none"}

C12_TargetRoundTrip ==
    (codec.kind = "target" /\ codec.x \in 30..70) =>
        /\ codec.y # None => codec.y = Some(150 + 5 * (codec.x - 30))
        /\ codec.z # None => codec.z = Some(codec.x)

C12_Witness ==
    codec = [kind |-> "target", x |-> 70, y |-> Some(350), z |-> Some(70)]

\* C13: an ambient-temperature byte of 71..163 encodes back to itself after
\* decoding.
C13_AmbientRoundTrip ==
    (codec.kind = "ambient" /\ codec.x \in 71..163 /\ codec.z # None) =>
        codec.z = Some(codec.x)

\* The base of each command of the specification.
BaseOf(kind) ==
    IF kind = "set_state" THEN 0
    ELSE IF kind = "set_operation_mode" THEN 1
    ELSE IF kind = "set_temperature" THEN 2
    ELSE 3

\* C14: the frame a command of room r in 0..4 writes has 7 bytes, starts
\* with 3B 01 FE 04, has cid = base + 4r with base 0 for the power switch, 1
\* for the mode switch, 2 for the target temperature and 3 for the poll, and
\* ends with (cid + data + 3) mod 256.
C14_BuiltFrames ==
    \A s \in Senders :
        (snd[s].pc = "drain" /\ snd[s].op.room \in 0..4) =>
            LET f == wire[Len(wire)].frame IN
            /\ wire[Len(wire)].by = s
            /\ Len(f) = 7
            /\ \A k \in 1..7 : f[k] \in Byte
            /\ SubSeq(f, 1, 4) = <<59, 1, 254, 4>>
            /\ f[5] = BaseOf(snd[s].op.kind) + 4 * snd[s].op.room
            /\ f[7] = (f[5] + f[6] + 3) % 256

C14_Witness ==
    /\ snd["entity"].pc = "drain"
    /\ snd["entity"].op = Op("set_operation_mode", 4, 1)
    /\ wire[Len(wire)].frame = <<59, 1, 254, 4, 17, 3, 23>>

\* The copies the specification gives each command.
CopiesOf(kind) == IF kind = "update_room" THEN 1 ELSE 2

\* C15: on a live connection set_state and set_operation_mode write their
\* frame exactly twice and update_room exactly once: a call never has more
\* copies written, and it returns when it has written that many.
C15_FixedCopies ==
    \A s \in Senders :
        LET c == snd[s] IN
        c.op.kind \in {"set_state", "set_operation_mode", "set_temperature", "update_room"} =>
            /\ c.i <= CopiesOf(c.op.kind)
            /\ c.put = c.i
            /\ c.pc = "drain" => c.i >= 1
            /\ c.res \in {"none", "sent"}
            /\ c.res = "sent" => (c.pc = "idle" /\ c.i = CopiesOf(c.op.kind))

C15_Witness ==
    /\ snd["entity"].op = Op("update_room", 2, 0)
    /\ snd["entity"].res = "sent"
    /\ snd["entity"].i = 1
    /\ wire = <<[by |-> "entity", frame |-> <<59, 1, 254, 4, 11, 0, 14>>]>>

RECURSIVE Flat(_)
\* The bytes of a sequence of frames.
Flat(fs) == IF fs = <<>> THEN <<>> ELSE Head(fs) \o Flat(Tail(fs))

\* C16: however the stream is split across reads, the frames dispatched are
\* the consecutive 7-byte slices of the bytes received, in order; after each
\* read fewer than 7 bytes stay buffered; the dispatched frames followed by
\* the buffer are the bytes received; and a room announced by a dispatched
\* frame is in the registry.
C16_StreamFraming ==
    /\ Len(buffer) < 7
    /\ Len(dispatched) = Len(received) \div 7
    /\ \A k \in 1..Len(dispatched) :
        dispatched[k] = SubSeq(received, 7 * (k - 1) + 1, 7 * k)
    /\ Flat(dispatched) \o buffer = received
    /\ \A k \in 1..Len(dispatched) :
        dispatched[k] = <<59, 1, 1, 4, 51, 0, 57>> => 1 \in RoomIdsOf(rooms)

C16_Witness ==
    /\ Len(received) = 23
    /\ Len(dispatched) = 3
    /\ buffer = <<59, 1>>
    /\ dispatched[2] = <<59, 1, 1, 4, 51, 0, 57>>
    /\ RoomIdsOf(rooms) = {1}

\* C17: after a connect failure, a socket error or an expired watchdog the
\* supervisor has closed the socket when it waits for the close to complete,
\* and the handle is null and no socket is open whenever it sleeps in
\* backoff; what it does next after the sleep, once it has the connect lock,
\* is a connect attempt.
C17_CleanupBeforeSleep ==
    /\ [](task = "running" =>
            /\ supPc = "closing" => (writer = "closed" /\ socks = 0 /\ fails >= 1)
            /\ supPc = "sleeping" => (writer = "null" /\ socks = 0 /\ fails >= 1))
    /\ [][(/\ task = "running" /\ task' = "running"
           /\ supPc = "sleeping" \/ (supPc = "lock" /\ writer = "null")
           /\ supPc' # supPc)
          => (writer' = "null" /\ supPc' \in {"connecting", "lock"})]_vars

C17_Witness ==
    /\ task = "running"
    /\ supPc = "sleeping"
    /\ fails = 2
    /\ backoff = 2
    /\ writer = "null"
    /\ snd["entity"].res = "raised"

\* C18: once a read has returned zero bytes the supervisor is not reading
\* that connection again: it closes the socket, sleeps and connects anew.
C18_EofLeavesConnected ==
    (task = "running" /\ eofSeen) =>
        /\ supPc \in {"closing", "sleeping", "connecting", "lock"}
        /\ supPc \in {"sleeping", "connecting"} => writer = "null"

\* C19: whatever senders, async_initialize and async_close do, at most one
\* supervisor task is unfinished, it is the one self._reader_task refers to,
\* and at most one socket is open, the one self.writer refers to.
C19_OneSupervisorOneSocket ==
    /\ live = IF task = "running" THEN 1 ELSE 0
    /\ socks = IF writer \in {"open", "eof"} THEN 1 ELSE 0
    /\ supPc \in {"connecting", "sleeping"} => writer = "null"

C19_Witness ==
    /\ snd["setup"].pc = "sleep"
    /\ snd["entity"].pc = "sleep"
    /\ task = "running"
    /\ live = 1
    /\ closePc = "idle"

\* C20: the supervisor task ends only in a step that delivers a cancellation,
\* and a cancellation is pending only while async_close waits for the task:
\* no failure to connect, error or timeout of a read, end of the stream or
\* exception of the frame processing ends it.
C20_OnlyShutdownStops ==
    /\ [](cancelReq => (task = "running" /\ closePc = "awaitTask"))
    /\ [][(task = "running" /\ task' # "running") => cancelReq]_vars

C20_Witness ==
    /\ task = "running"
    /\ ~cancelReq
    /\ closePc = "idle"
    /\ fails = 2
    /\ eofSeen
    /\ supPc = "sleeping"

----------------------------------------------------------------------------
(* Claims about shutdown, recovery and the shared handle *)

\* C21: once async_close has returned with the supervisor task finished, no
\* later call starts a supervisor task or opens a socket.
C21_ShutdownTerminal ==
    [][(closePc = "idle" /\ task = "done") => (task' = "done" /\ socks' = 0)]_vars

\* The supervisor is connected and reads what the hub sends.
Connected == task = "running" /\ supPc = "reading" /\ writer = "open"

\* The link of a running supervisor is down: the hub closed the connection,
\* or an error sent the supervisor to its cleanup and backoff sleep.
LinkDown ==
    /\ task = "running"
    /\ \/ writer = "eof"
       \/ supPc \in {"closing", "sleeping"}

\* C22: without shutdown, a supervisor whose link went down is eventually
\* connected again (connection attempts succeed when repeated).
C22_Recovers == LinkDown ~> (Connected \/ closePc # "idle" \/ task # "running")

\* C23: a sender whose first copy went to a live handle, and which has
\* copies left to write, still finds self.writer set: neither the cleanup of
\* the supervisor nor that of async_close has set it to None meanwhile.
C23_HandleKeptForSender ==
    \A s \in Senders :
        (snd[s].pc = "drain" /\ snd[s].put >= 1 /\ snd[s].i < repeat_of(snd[s].op))
            => writer # "null"

\* C24: every command a sender has called returns, and every async_close
\* that was called returns.
C24_EveryCallReturns ==
    /\ \A s \in Senders : (snd[s].pc # "idle") ~> (snd[s].pc = "idle")
    /\ (closePc # "idle") ~> (closePc = "idle")

----------------------------------------------------------------------------
(* Claims about Room.parse_response, checksums and the registry *)

\* The cids of the info families (4r..4r+3) and humidity slots (0x64+r) of
\* the rooms 0..4.
StateCids == (0..19) \cup (100..104)

\* C25: a frame with data byte 0x00 and a cid of an info family or humidity
\* slot, of whatever header and checksum, changes no field of any room,
\* creates no room and fires neither a change callback nor a discovery event.
C25_ZeroDataNoop ==
    (applied >= 1 /\ lastFrame[6] = 0 /\ lastFrame[5] \in StateCids)
        => /\ rooms = prevRooms
           /\ fired = {}
           /\ \A r \in RoomIds :
                 newRoomEvents[r] = IF r \in RoomIdsOf(prevRooms) THEN 1 ELSE 0

\* 3B 01 01 04 02 00 08, a checksum-valid frame on the target-temperature
\* channel of room 0, was applied to five populated rooms: room 0 keeps 22.0.
C25_Witness ==
    /\ applied = 1
    /\ lastFrame = <<59, 1, 1, 4, 2, 0, 8>>
    /\ Len(prevRooms) = 5
    /\ RoomById(prevRooms, 0).conf_temperature = Some(220)
    /\ RoomById(prevRooms, 0).updated_callback
    /\ RoomById(rooms, 0).conf_temperature = Some(220)
    /\ fired = {}

\* C26: for every room of the registry the frame was applied to, and every
\* frame of an inbound class whose checksum does not match or whose cid is
\* neither in the room's info family nor its humidity slot,
\* Room.parse_response returns False, so that the next room is tried.
C26_NotForThisRoom ==
    applied >= 1 =>
        \A i \in 1..Len(prevRooms) :
            LET room == prevRooms[i]
                vh == valid_header_response(lastFrame)
            IN  (vh # None /\ (~ChecksumValid(lastFrame) \/ ~Addresses(lastFrame, room.id)))
                    => ~Room_parse_response(room, lastFrame, vh[1]).processed

\* The field a frame of cid c sets in room r.
FieldOf(c, r) ==
    IF c = 4 * r THEN "state"
    ELSE IF c = 4 * r + 1 THEN "operation_state"
    ELSE IF c = 4 * r + 2 THEN "conf_temperature"
    ELSE IF c = 4 * r + 3 THEN "temperature"
    ELSE "humidity"

\* C27: applying one frame changes at most one room of the registry, and
\* only a room the frame addresses (cid in 4r..4r+3 or cid = 0x64 + r), in
\* the one field of that cid; every other room and every other field is as
\* before, and no other room's callback fires, in whatever order the
\* registry holds the rooms.
C27_PerRoomAttribution ==
    applied >= 1 =>
        /\ Len(rooms) >= Len(prevRooms)
        /\ \A i \in 1..Len(prevRooms) :
              rooms[i] # prevRooms[i] =>
                  /\ Addresses(lastFrame, prevRooms[i].id)
                  /\ \A fld \in DOMAIN prevRooms[i] \ {FieldOf(lastFrame[5], prevRooms[i].id)} :
                        rooms[i][fld] = prevRooms[i][fld]
        /\ Cardinality({i \in 1..Len(prevRooms) : rooms[i] # prevRooms[i]}) <= 1
        /\ \A r \in fired : Addresses(lastFrame, r)

\* 3B 01 01 04 65 FF 6A (humidity of room 1) was applied to the registry
\* that holds room 3 before room 1: room 1 reads 100 %, room 3 is as before.
C27_Witness ==
    /\ applied = 1
    /\ lastFrame = <<59, 1, 1, 4, 101, 255, 106>>
    /\ Len(prevRooms) = 2
    /\ prevRooms[1].id = 3 /\ prevRooms[2].id = 1
    /\ prevRooms[2].humidity = None
    /\ rooms[2].humidity = Some(100)
    /\ rooms[1] = prevRooms[1]

\* The frame was taken as a discovery answer, or decoded by a room of the
\* registry it was applied to, or it changed a room or fired a callback.
Accepted(f, h) ==
    \/ Connector_parse_response(prevRooms, NoEvents, f, h).processed
    \/ f[6] # 0 /\ \E i \in 1..Len(prevRooms) : Room_parse_response(prevRooms[i], f, h).processed
    \/ rooms # prevRooms
    \/ fired # {}

\* C28: a frame is accepted for discovery or decoded by a room only if its
\* trailing byte is (cid + data + 6) mod 256 under a VALID_ANSWER header and
\* (cid + data) mod 256 under a VALID_CONFIRMATION header; a frame that
\* carries the checksum of the other class is rejected.
C28_ChecksumByHeaderClass ==
    applied >= 1 =>
        LET f == lastFrame
            h == SubSeq(f, 1, 4)
        IN  /\ (h = VALID_ANSWER /\ Accepted(f, h)) => f[7] = (f[5] + f[6] + 6) % 256
            /\ (h = VALID_CONFIRMATION /\ Accepted(f, h)) => f[7] = (f[5] + f[6]) % 256
            /\ (h = VALID_ANSWER /\ f[7] = (f[5] + f[6]) % 256) => ~Accepted(f, h)
            /\ (h = VALID_CONFIRMATION /\ f[7] = (f[5] + f[6] + 6) % 256) => ~Accepted(f, h)

\* 3B FE 01 01 03 21 2A, a VALID_CONFIRMATION frame for room 0's measured
\* temperature with the checksum of a VALID_ANSWER (offset 6), was applied to
\* five fresh rooms and changed nothing.
C28_Witness ==
    /\ applied = 1
    /\ lastFrame = <<59, 254, 1, 1, 3, 33, 42>>
    /\ Len(prevRooms) = 5
    /\ prevRooms[1].id = 0 /\ prevRooms[1].temperature = None
    /\ rooms = prevRooms
    /\ fired = {}

\* The integer nearest to n / d, for n >= 0 and d > 0 (no tie arises below:
\* a multiple of 0.1 is never halfway between two multiples of 0.5).
RoundDiv(n, d) == (2 * n + d) \div (2 * d)

\* C29: for every target t of 15.0..35.0 in steps of 0.1, the encoded byte is
\* round((t - 15) / 0.5) + 30.
C29_EncodeRoundsToNearest ==
    (codec.kind = "set" /\ codec.z # None) =>
        codec.z = Some(RoundDiv(codec.y[1] - 150, 5) + 30)

\* The decoded fields of a room.
RoomFields == {"state", "operation_state", "temperature", "conf_temperature", "humidity"}

\* C30: the registry holds one room per key, the keys are room ids of 0..4,
\* and in every step each room stays where it is with its id, its callback
\* and its decoded fields, which only a frame read from a live connection
\* changes and nothing clears: no failure, cleanup, reconnection or close
\* removes, replaces or resets a room.
C30_RegistrySurvives ==
    /\ [](/\ RoomIdsOf(rooms) \subseteq RoomIds
          /\ Cardinality(RoomIdsOf(rooms)) = Len(rooms))
    /\ [][/\ Len(rooms') >= Len(rooms)
          /\ \A i \in 1..Len(rooms) :
                /\ rooms'[i].id = rooms[i].id
                /\ rooms[i].updated_callback => rooms'[i].updated_callback
                /\ \A fld \in RoomFields :
                      /\ rooms[i][fld] # None => rooms'[i][fld] # None
                      /\ rooms'[i][fld] # rooms[i][fld]
                            => (supPc = "reading" /\ writer = "open")]_vars

\* Room 1, which an entity commanded on a connection that was then lost, is
\* still in the registry with its callback and its measured temperature
\* after the supervisor has connected again.
C30_Witness ==
    /\ snd["entity"].res = "raised"
    /\ task = "running" /\ supPc = "reading" /\ writer = "open"
    /\ Len(rooms) = 1
    /\ rooms[1].id = 1
    /\ rooms[1].updated_callback
    /\ rooms[1].temperature = Some(645)

\* C32: a frame whose first four bytes are neither VALID_ANSWER nor
\* VALID_CONFIRMATION creates no room, changes no field and fires no
\* discovery or change event, whatever its cid, data and checksum.
C32_ForeignHeaderIgnored ==
    (applied >= 1 /\ SubSeq(lastFrame, 1, 4) \notin {VALID_ANSWER, VALID_CONFIRMATION})
        => /\ rooms = prevRooms
           /\ fired = {}
           /\ \A r \in RoomIds :
                 newRoomEvents[r] = IF r \in RoomIdsOf(prevRooms) THEN 1 ELSE 0

\* 3B 01 FE 04 32 00 38, a SEND_COMMAND frame that would be the discovery
\* answer of room 0 under a VALID_ANSWER header, was applied to the empty
\* registry: no room was created.
C32_Witness ==
    /\ applied = 1
    /\ lastFrame = <<59, 1, 254, 4, 50, 0, 56>>
    /\ prevRooms = <<>>
    /\ rooms = <<>>
    /\ newRoomEvents = NoEvents

\* The position in the history of the frame that created room r.
CreatedAt(r) ==
    CHOOSE k \in 1..Len(dispatched) :
        /\ IsDiscoveryFrame(dispatched[k]) /\ dispatched[k][5] = 50 + r
        /\ \A j \in 1..(k - 1) :
              ~(IsDiscoveryFrame(dispatched[j]) /\ dispatched[j][5] = 50 + r)

\* The positions of the frames, processed since room r was created, that
\* carry a value for field fld of room r.
CarriedAt(r, fld) ==
    {k \in (CreatedAt(r) + 1)..Len(dispatched) :
        /\ Carried(dispatched[k], r) # None
        /\ Carried(dispatched[k], r)[1] = fld}

\* The positions of the checksum-valid frames with non-zero data, processed
\* since room r was created, on the channel of field fld of room r.
ValidAt(r, fld) ==
    {k \in (CreatedAt(r) + 1)..Len(dispatched) :
        /\ ChecksumValid(dispatched[k])
        /\ dispatched[k][6] # 0
        /\ Addresses(dispatched[k], r)
        /\ FieldOf(dispatched[k][5], r) = fld}

Latest(S) == CHOOSE k \in S : \A j \in S : j <= k

\* C31: each field of each room is unknown if no frame carrying a value for
\* it (checksum-valid, non-zero data and, on the power and mode channels,
\* data 2 or 3) has been processed since the room was created, and otherwise
\* holds the value decoded from the most recent such frame; a known field
\* never returns to unknown.
C31_LastWriteWins ==
    /\ [](\A i \in 1..Len(rooms) : \A fld \in RoomFields :
             LET S == CarriedAt(rooms[i].id, fld)
             IN  rooms[i][fld] = IF S = {} THEN None
                                 ELSE Carried(dispatched[Latest(S)], rooms[i].id)[2])
    /\ [][\A i \in 1..Len(rooms) : \A fld \in RoomFields :
             rooms[i][fld] # None => rooms'[i][fld] # None]_vars

\* Room 0 was discovered, then told its measured temperature twice: it holds
\* the second value, 64.0, and no other field.
C31_Witness ==
    /\ dispatched = <<FrameWithOffset(VALID_ANSWER, 50, 0, 6),
                      FrameWithOffset(VALID_ANSWER, 3, 33, 6),
                      FrameWithOffset(VALID_CONFIRMATION, 3, 34, 0)>>
    /\ Len(rooms) = 1
    /\ rooms[1].temperature = Some(640)
    /\ rooms[1].state = None

\* C31 as stated: a field is known exactly when some checksum-valid frame
\* with non-zero data on its channel has been processed since the room was
\* created.
C31_KnownIffValidFrame ==
    \A i \in 1..Len(rooms) : \A fld \in RoomFields :
        (rooms[i][fld] # None) <=> (ValidAt(rooms[i].id, fld) # {})

----------------------------------------------------------------------------
(* Claims about the commands and the read buffer *)

\* The commands that look their room up in the registry.
RoomCommands == {"update_room", "set_state", "set_operation_mode", "set_temperature"}

\* C34: the call of a command whose room id is not in the registry returns
\* in the same step, having written nothing, created no supervisor task,
\* taken no lock and changed neither the connection nor the registry.
C34_UnknownRoomNoop ==
    [][\A s \in Senders :
          (/\ snd[s].pc = "idle"
           /\ snd'[s] # snd[s]
           /\ snd'[s].op.kind \in RoomCommands
           /\ snd'[s].op.room \notin RoomIdsOf(rooms))
          => /\ snd'[s].pc = "idle"
             /\ snd'[s].i = 0 /\ snd'[s].put = 0
             /\ snd'[s].res # "raised"
             /\ wire' = wire
             /\ supVars' = supVars
             /\ <<writer, socks, connectLock, writerLock, buffer, closePc>>'
                    = <<writer, socks, connectLock, writerLock, buffer, closePc>>
             /\ regVars' = regVars]_vars

\* set_state was called for room 0, which the connector does not know,
\* before anything was connected: no task, no socket, nothing written.
C34_Witness ==
    /\ snd["entity"].op = Op("set_state", 0, 1)
    /\ snd["entity"].pc = "idle"
    /\ snd["entity"].res = "noroom"
    /\ task = "none"
    /\ writer = "null"
    /\ wire = <<>>
    /\ snd["setup"] = IdleSender

\* C35: the bytes of a partial frame left in the buffer when a connection
\* ends are discarded.  received and dispatched hold the bytes received and
\* the frames dispatched on the current connection only: every frame
\* dispatched is made of 7 consecutive bytes of this connection, the first
\* one of its first 7 bytes, and while the connection is read the buffer
\* holds bytes of this connection and no others.
C35_BufferPerConnection ==
    /\ Len(dispatched) <= Len(received) \div 7
    /\ Len(dispatched) >= 1 => dispatched[1] = SubSeq(received, 1, 7)
    /\ \A k \in 1..Len(dispatched) :
        dispatched[k] = SubSeq(received, 7 * (k - 1) + 1, 7 * k)
    /\ supPc = "reading" /\ writer = "open" =>
        /\ Len(buffer) = Len(received) % 7
        /\ buffer = SubSeq(received, Len(received) - Len(buffer) + 1, Len(received))

\* A second connection has delivered the discovery of room 1 and two more
\* bytes, after a first one that had delivered the discovery of room 0.
C35_Witness ==
    /\ supPc = "reading" /\ writer = "open"
    /\ dispatched = <<FrameWithOffset(VALID_ANSWER, 51, 0, 6)>>
    /\ Len(received) = 9
    /\ Len(buffer) = 2
    /\ Len(rooms) = 2
    /\ rooms[1].id = 0

\* The update_rooms call of the poller, once it was made.
Polling == "snap" \in DOMAIN snd[Poller]

\* The place of a room in the list update_rooms made.
PlaceIn(list, id) == CHOOSE k \in 1..Len(list) : list[k] = id

\* C33 as stated: when update_rooms is over, exactly one poll frame was
\* written for each room that was in the registry when it was called.
C33_EveryRoomPolled ==
    Polling /\ snd[Poller].pc = "idle" => snd[Poller].log = snd[Poller].snap

\* C33, amended: update_rooms polls the rooms that were in the registry when
\* it was called, one after the other in the order of the registry, at most
\* one poll frame each and none for rooms discovered since; the frame of a
\* room is written and drained before the send for the next room starts; one
\* frame is written for every room when every send found the connection.
C33_PollsListInOrder ==
    Polling =>
        LET c == snd[Poller]
            handled == Len(c.snap) - Len(c.todo)
            written == IF c.pc = "drain" \/ c.res = "raised" THEN 1 ELSE 0
        IN  /\ Len(c.snap) <= Len(rooms)
            /\ c.snap = SubSeq(rooms_list(rooms), 1, Len(c.snap))
            /\ c.todo = SubSeq(c.snap, handled + 1, Len(c.snap))
            /\ \A k \in 1..Len(c.log) : \E j \in 1..Len(c.snap) : c.snap[j] = c.log[k]
            /\ \A k \in 1..(Len(c.log) - 1) :
                PlaceIn(c.snap, c.log[k]) < PlaceIn(c.snap, c.log[k + 1])
            /\ \A k \in 1..Len(c.log) :
                PlaceIn(c.snap, c.log[k]) <= handled + written
            /\ c.pc = "drain" => c.op = Op("update_room", Head(c.todo), 0)
            /\ c.i <= handled + written
            /\ c.pc = "drain" /\ Live(writer) /\ wire # <<>> =>
                wire[Len(wire)] = [by |-> Poller, frame |-> info_trace(Head(c.todo))]
            /\ c.pc = "idle" /\ c.res = "done" /\ c.drops = 0 /\ c.put = c.i =>
                c.log = c.snap

\* The poll frames of rooms 0 and 1 were written, the second is being
\* drained, and room 2 was discovered since update_rooms was called.
C33_Witness ==
    /\ Polling
    /\ snd[Poller].pc = "drain"
    /\ snd[Poller].snap = <<0, 1>>
    /\ snd[Poller].log = <<0, 1>>
    /\ snd[Poller].todo = <<1>>
    /\ rooms_list(rooms) = <<0, 1, 2>>

============================================================================
